---- MODULE Spec2Model ----
(***************************************************************************)
(* Model of the fasthtml-flowbite component library: CustomButton,         *)
(* FloatingLabelForm, NavBar and Accordion.  A render turns a descriptor   *)
(* (a dataclass instance) into a markup tree.                              *)
(*                                                                         *)
(* Encoding of Python values:                                              *)
(*   - a dict is a function from keys to values; attribute names (dict     *)
(*     keys, keyword names) are TLA+ strings, so f"hx_{key}" is "hx_" \o   *)
(*     key;                                                                *)
(*   - a str VALUE is a sequence of tokens; a token is either the single   *)
(*     blank " " or a non-empty string without leading or trailing         *)
(*     whitespace.  "" is << >>.  " ".join and str.strip act on tokens     *)
(*     exactly as they act on the characters;                              *)
(*   - None is the reserved one-token value None, which no str input uses; *)
(*   - a markup node (what fasthtml's Button, Div, Input ... return) is a  *)
(*     record [tag, attrs, children].                                      *)
(***************************************************************************)
EXTENDS Integers, Sequences, FiniteSets, TLC

(***************************************************************************)
(* Python primitives                                                       *)
(***************************************************************************)
None == <<"<None>">>

EmptyDict == [k \in {} |-> << >>]

\* dict.get(key, default)
Get(d, key, default) == IF key \in DOMAIN d THEN d[key] ELSE default

\* {**d, **e}  /  d.update(e): the entries of e overwrite those of d
Update(d, e) ==
    [k \in (DOMAIN d) \cup (DOMAIN e) |-> IF k \in DOMAIN e THEN e[k] ELSE d[k]]

\* the dict left behind by d.pop(key, default)
Pop(d, key) == [k \in (DOMAIN d) \ {key} |-> d[k]]

\* " ".join(parts)
RECURSIVE Join(_)
Join(parts) ==
    IF parts = << >> THEN << >>
    ELSE IF Len(parts) = 1 THEN Head(parts)
    ELSE Head(parts) \o <<" ">> \o Join(Tail(parts))

\* str.lstrip(), str.rstrip(), str.strip()
RECURSIVE LStrip(_)
LStrip(s) ==
    IF s # << >> /\ Head(s) = " " THEN LStrip(Tail(s)) ELSE s

RECURSIVE RStrip(_)
RStrip(s) ==
    IF s # << >> /\ s[Len(s)] = " " THEN RStrip(SubSeq(s, 1, Len(s) - 1)) ELSE s

Strip(s) == RStrip(LStrip(s))

\* {f"hx_{key}": value for key, value in htmx.items()}
HxPrefix(key) == "hx_" \o key

\* the comprehension without the prefix
HxAttrs_unprefixed(htmx) == htmx

HxAttrs(htmx) ==
    [k \in {HxPrefix(v) : v \in DOMAIN htmx} |->
        htmx[CHOOSE v \in DOMAIN htmx : HxPrefix(v) = k]]

\* a markup node, as built by a fasthtml tag function  Tag(*children, **attrs)
Node(tag, children, attrs) == [tag |-> tag, attrs |-> attrs, children |-> children]

\* a str child of a node
Text(s) == Node("#text", << >>, [text |-> s])

\* a render that raised instead of returning a tree
Raised(exc) == Node("!raise", << >>, [exception |-> <<exc>>])

IsTree(r) == r.tag \notin {"!raise", "!none"}

(***************************************************************************)
(* components/buttons.py                                                   *)
(***************************************************************************)
_style_classes ==
    [default |-> <<"text-white bg-blue-700 hover:bg-blue-800 focus:ring-4 focus:ring-blue-300 dark:bg-blue-600 dark:hover:bg-blue-700 focus:outline-none dark:focus:ring-blue-800">>,
     alternative |-> <<"text-gray-900 focus:outline-none bg-white border border-gray-200 hover:bg-gray-100 hover:text-blue-700 focus:z-10 focus:ring-4 focus:ring-gray-100 dark:focus:ring-gray-700 dark:bg-gray-800 dark:text-gray-400 dark:border-gray-600 dark:hover:text-white dark:hover:bg-gray-700">>,
     dark |-> <<"text-white bg-gray-800 hover:bg-gray-900 focus:outline-none focus:ring-4 focus:ring-gray-300 dark:bg-gray-800 dark:hover:bg-gray-700 dark:focus:ring-gray-700 dark:border-gray-700">>,
     light |-> <<"text-gray-900 bg-white border border-gray-300 focus:outline-none hover:bg-gray-100 focus:ring-4 focus:ring-gray-100 dark:bg-gray-800 dark:text-white dark:border-gray-600 dark:hover:bg-gray-700 dark:hover:border-gray-600 dark:focus:ring-gray-700">>,
     green |-> <<"focus:outline-none text-white bg-green-700 hover:bg-green-800 focus:ring-4 focus:ring-green-300 dark:bg-green-600 dark:hover:bg-green-700 dark:focus:ring-green-800">>,
     red |-> <<"focus:outline-none text-white bg-red-700 hover:bg-red-800 focus:ring-4 focus:ring-red-300 dark:bg-red-600 dark:hover:bg-red-700 dark:focus:ring-red-900">>,
     yellow |-> <<"focus:outline-none text-white bg-yellow-400 hover:bg-yellow-500 focus:ring-4 focus:ring-yellow-300 dark:focus:ring-yellow-900">>,
     purple |-> <<"focus:outline-none text-white bg-purple-700 hover:bg-purple-800 focus:ring-4 focus:ring-purple-300 dark:bg-purple-600 dark:hover:bg-purple-700 dark:focus:ring-purple-900">>]

_size_classes ==
    [xs |-> <<"px-3 py-2 text-xs">>,
     sm |-> <<"px-3 py-2 text-sm">>,
     base |-> <<"px-5 py-2.5 text-sm">>,
     lg |-> <<"px-5 py-3 text-base">>,
     xl |-> <<"px-6 py-3.5 text-base">>]

\* the lookup with an empty fallback
style_classes_no_fallback(style) == Get(_style_classes, style, << >>)

\* CustomButton.__call__, line 35
style_classes(style) == Get(_style_classes, style, _style_classes["default"])

\* CustomButton.__call__, line 36
size_classes(size) == Get(_size_classes, size, _size_classes["base"])

\* CustomButton.__call__, lines 38-45
classes(b) ==
    << style_classes(b.style),
       size_classes(b.size),
       <<"font-medium">>,
       IF b.pill THEN <<"rounded-full">> ELSE <<"rounded-lg">>,
       <<"text-center">>,
       <<"me-2 mb-2">> >>

\* the dict with the generated type and class written over additional_attrs
ButtonBaseAttrs_role_wins(b) ==
    Update(b.additional_attrs, [type |-> b.type, cls |-> Join(classes(b))])

\* CustomButton.__call__, lines 47-51: the generated type and class, then
\* the entries of additional_attrs spread over them
ButtonBaseAttrs(b) ==
    Update([type |-> b.type, cls |-> Join(classes(b))], b.additional_attrs)

\* CustomButton.__call__, lines 47-55: the hx_ entries are written last
ButtonAttrs(b) == Update(ButtonBaseAttrs(b), HxAttrs(b.htmx))

\* CustomButton.__call__
CustomButton_call(b) == Node("button", <<Text(b.label)>>, ButtonAttrs(b))

(***************************************************************************)
(* components/floating_form.py                                             *)
(*                                                                         *)
(* FormField and CustomButton objects are shared and mutable, so they live *)
(* in a heap: `fields` maps a field reference to its FormField, `button`   *)
(* is the CustomButton a form's custom_submit_button refers to.  A         *)
(* FormSection holds a list of field references, a FloatingLabelForm a     *)
(* list of sections and either None or the reference to `button`.          *)
(***************************************************************************)
default_cls ==
    <<"block py-2.5 px-0 w-full text-sm text-gray-900 bg-transparent border-0 border-b-2 border-gray-300 appearance-none dark:text-white dark:border-gray-600 dark:focus:border-blue-500 focus:outline-none focus:ring-0 focus:border-blue-600 peer">>

label_cls ==
    <<"peer-focus:font-medium absolute text-sm text-gray-500 dark:text-gray-400 duration-300 transform -translate-y-6 scale-75 top-3 -z-10 origin-[0] peer-focus:start-0 rtl:peer-focus:translate-x-1/4 rtl:peer-focus:left-auto peer-focus:text-blue-600 peer-focus:dark:text-blue-500 peer-placeholder-shown:scale-100 peer-placeholder-shown:translate-y-0 peer-focus:scale-75 peer-focus:-translate-y-6">>

default_submit_cls ==
    <<"text-white bg-blue-700 hover:bg-blue-800 focus:ring-4 focus:outline-none focus:ring-blue-300 font-medium rounded-lg text-sm w-full sm:w-auto px-5 py-2.5 text-center dark:bg-blue-600 dark:hover:bg-blue-700 dark:focus:ring-blue-800">>

\* f"floating_{field.name}"
FloatingId(name) == <<"floating_">> \o name

\* floating_input, line 172: the value  field.additional_attrs.pop("cls", "")
\* returns
additional_cls(field) == Get(field.additional_attrs, "cls", << >>)

\* floating_input, line 172: the FormField that the pop leaves behind
FieldAfterInput(field) ==
    [field EXCEPT !.additional_attrs = Pop(field.additional_attrs, "cls")]

\* the keyword arguments with the override class in place of the base class
input_attrs_cls_replaced(field) ==
    LET base == [type        |-> field.type,
                 name        |-> field.name,
                 id          |-> FloatingId(field.name),
                 placeholder |-> field.placeholder,
                 required    |-> IF field.required THEN << >> ELSE None,
                 pattern     |-> field.pattern]
        withCls == Update(base,
                     [cls |-> IF "cls" \in DOMAIN field.additional_attrs
                              THEN Strip(additional_cls(field))
                              ELSE default_cls])
        withHx  == Update(withCls, HxAttrs(field.htmx))
    IN  Update(withHx, FieldAfterInput(field).additional_attrs)

\* floating_input, lines 162-176: the keyword arguments of Input
input_attrs(field) ==
    LET base == [type        |-> field.type,
                 name        |-> field.name,
                 id          |-> FloatingId(field.name),
                 placeholder |-> field.placeholder,
                 required    |-> IF field.required THEN << >> ELSE None,
                 pattern     |-> field.pattern]
        withCls == Update(base,
                     [cls |-> Strip(default_cls \o <<" ">> \o additional_cls(field))])
        withHx  == Update(withCls, HxAttrs(field.htmx))
    IN  Update(withHx, FieldAfterInput(field).additional_attrs)

\* the Div without the validation container
floating_input_no_container(field) ==
    Node("div",
         << Node("input", << >>, input_attrs(field)),
            Node("label", <<Text(field.label)>>,
                 [fr |-> FloatingId(field.name), cls |-> label_cls]) >>,
         [cls |-> <<"relative z-0 w-full mb-5 group">>])

\* floating_input, lines 178-187: the returned Div
floating_input(field) ==
    Node("div",
         << Node("input", << >>, input_attrs(field)),
            Node("label", <<Text(field.label)>>,
                 [fr |-> FloatingId(field.name), cls |-> label_cls]),
            Node("div", << >>, [cls |-> <<"validation-message">>]) >>,
         [cls |-> <<"relative z-0 w-full mb-5 group">>])

\* two_column_inputs
two_column_inputs(input1, input2) ==
    Node("div", <<input1, input2>>, [cls |-> <<"grid md:grid-cols-2 md:gap-6">>])

\* [self.floating_input(field) for field in refs], evaluated left to right on
\* the heap fs: the trees, and the heap the calls leave behind
RECURSIVE InputList(_, _, _)
InputList(refs, fs, acc) ==
    IF refs = << >> THEN [trees |-> acc, fields |-> fs]
    ELSE LET r == Head(refs)
         IN  InputList(Tail(refs),
                       [fs EXCEPT ![r] = FieldAfterInput(fs[r])],
                       Append(acc, floating_input(fs[r])))

\* render_section, lines 145-148, once both floating_input calls returned
DoubleSecond(first, second) ==
    [tree   |-> two_column_inputs(first.trees[1], second.trees[1]),
     fields |-> second.fields]

\* render_section, lines 145-148, once floating_input(section.fields[0])
\* returned: section.fields[1] raises IndexError, or the second call is made
\* on the heap the first call left behind
DoubleFirst(section, first) ==
    IF Len(section.fields) = 1
    THEN [tree |-> Raised("IndexError"), fields |-> first.fields]
    ELSE DoubleSecond(first,
                      InputList(SubSeq(section.fields, 2, 2), first.fields, << >>))

\* render_section, line 150, once the comprehension returned
SingleResult(all) ==
    [tree |-> Node("div", all.trees, EmptyDict), fields |-> all.fields]

\* render_section on the heap fs: the returned tree (or the IndexError of
\* section.fields[0] / section.fields[1]) and the heap left behind
render_section(section, fs) ==
    IF section.layout = "double"
    THEN IF Len(section.fields) = 0
         THEN [tree |-> Raised("IndexError"), fields |-> fs]
         ELSE DoubleFirst(section,
                          InputList(SubSeq(section.fields, 1, 1), fs, << >>))
    ELSE SingleResult(InputList(section.fields, fs, << >>))

\* [self.render_section(section) for section in sections], left to right;
\* the first section that raises ends the comprehension
RECURSIVE SectionList(_, _, _)
RECURSIVE SectionNext(_, _, _)
SectionNext(sections, acc, r) ==
    IF IsTree(r.tree)
    THEN SectionList(Tail(sections), r.fields, Append(acc, r.tree))
    ELSE [trees |-> <<r.tree>>, fields |-> r.fields, raised |-> TRUE]

SectionList(sections, fs, acc) ==
    IF sections = << >> THEN [trees |-> acc, fields |-> fs, raised |-> FALSE]
    ELSE SectionNext(sections, acc, render_section(Head(sections), fs))

\* render_submit_button, line 211:  button.type = "submit"
SubmitSetType(btn) == [btn EXCEPT !.type = <<"submit">>]

\* the update the other way round: the button's own entries win
SubmitUpdateHtmx_button_wins(btn, form) ==
    [btn EXCEPT !.htmx = Update(form.htmx, btn.htmx)]

\* render_submit_button, line 212:  button.htmx.update(self.htmx)
SubmitUpdateHtmx(btn, form) == [btn EXCEPT !.htmx = Update(btn.htmx, form.htmx)]

\* the two writes with  button.htmx = self.htmx  for the second
SubmitButtonAfter_fresh(form, btn) ==
    IF form.custom_submit_button
    THEN [SubmitSetType(btn) EXCEPT !.htmx = form.htmx]
    ELSE btn

\* render_submit_button, lines 209-212: the CustomButton after the two writes
SubmitButtonAfter(form, btn) ==
    IF form.custom_submit_button
    THEN SubmitUpdateHtmx(SubmitSetType(btn), form)
    ELSE btn

\* render_submit_button, lines 215-219: the default control
DefaultSubmit(form) ==
    Node("button", <<Text(form.submit_label)>>,
         [type |-> <<"submit">>, cls |-> default_submit_cls])

\* render_submit_button: the returned control
render_submit_button(form, btn) ==
    IF form.custom_submit_button
    THEN CustomButton_call(SubmitButtonAfter(form, btn))
    ELSE DefaultSubmit(form)

\* FloatingLabelForm.__xt__, lines 125-126
form_attrs(form) == Update([cls |-> form.cls], HxAttrs(form.htmx))

\* FloatingLabelForm.__xt__, lines 128-132, once the sections are rendered:
\* the exception of a section, or the Form with the submit control
FormResult(form, btn, secs) ==
    IF secs.raised
    THEN [tree |-> secs.trees[1], fields |-> secs.fields, button |-> btn]
    ELSE [tree   |-> Node("form",
                          Append(secs.trees, render_submit_button(form, btn)),
                          form_attrs(form)),
          fields |-> secs.fields,
          button |-> SubmitButtonAfter(form, btn)]

\* FloatingLabelForm.__xt__ on the heap (fs, btn): the returned tree, or the
\* exception a section raised, and the heap the call leaves behind
FloatingLabelForm_xt(form, fs, btn) ==
    FormResult(form, btn, SectionList(form.sections, fs, << >>))

(***************************************************************************)
(* components/navbar.py                                                    *)
(***************************************************************************)
base_cls ==
    <<"block py-2 px-3 md:p-0 rounded hover:bg-gray-100 md:hover:bg-transparent md:hover:text-blue-700 md:dark:hover:text-blue-500 dark:text-white dark:hover:bg-gray-700 dark:hover:text-white md:dark:hover:bg-transparent dark:border-gray-700">>

active_cls ==
    <<"text-white bg-blue-700 md:bg-transparent md:text-blue-700 md:dark:text-blue-500">>

inactive_cls == <<"text-gray-900">>

\* the class with the active class whatever the flag
menu_item_cls_always_active(item) ==
    Strip(base_cls \o <<" ">> \o active_cls \o <<" ">> \o item.cls)

\* NavBar._render_menu_item, line 166
menu_item_cls(item) ==
    Strip(base_cls \o <<" ">>
          \o (IF item.active THEN active_cls ELSE inactive_cls)
          \o <<" ">> \o item.cls)

\* NavBar._render_menu_item
_render_menu_item(item) ==
    Node("li",
         << Node("a", <<Text(item.text)>>,
                 [href         |-> item.href,
                  cls          |-> menu_item_cls(item),
                  aria_current |-> IF item.active THEN <<"page">> ELSE None]) >>,
         EmptyDict)

\* NavBar._render_menu
_render_menu(nav) ==
    Node("div",
         << Node("ul",
                 [i \in 1..Len(nav.menu_items) |-> _render_menu_item(nav.menu_items[i])],
                 [cls |-> <<"flex flex-col font-medium p-4 md:p-0 mt-4 border border-gray-100 rounded-lg bg-gray-50 md:space-x-8 rtl:space-x-reverse md:flex-row md:mt-0 md:border-0 md:bg-white dark:bg-gray-800 md:dark:bg-gray-900 dark:border-gray-700">>]) >>,
         [cls |-> <<"items-center justify-between hidden w-full md:flex md:w-auto md:order-1">>,
          id  |-> <<"navbar-cta">>])

\* NavBar._render_mobile_menu_button
_render_mobile_menu_button ==
    Node("button",
         << Node("span", <<Text(<<"Open main menu">>)>>, [cls |-> <<"sr-only">>]),
            Node("svg",
                 << Node("path", << >>,
                         [stroke          |-> <<"currentColor">>,
                          stroke_linecap  |-> <<"round">>,
                          stroke_linejoin |-> <<"round">>,
                          stroke_width    |-> <<"2">>,
                          d               |-> <<"M1 1h15M1 7h15M1 13h15">>]) >>,
                 [cls         |-> <<"w-5 h-5">>,
                  aria_hidden |-> <<"true">>,
                  xmlns       |-> <<"http://www.w3.org/2000/svg">>,
                  fill        |-> <<"none">>,
                  viewbox     |-> <<"0 0 17 14">>]) >>,
         [data_collapse_toggle |-> <<"navbar-cta">>,
          type          |-> <<"button">>,
          cls           |-> <<"inline-flex items-center p-2 w-10 h-10 justify-center text-sm text-gray-500 rounded-lg md:hidden hover:bg-gray-100 focus:outline-none focus:ring-2 focus:ring-gray-200 dark:text-gray-400 dark:hover:bg-gray-700 dark:focus:ring-gray-600">>,
          aria_controls |-> <<"navbar-cta">>,
          aria_expanded |-> <<"false">>])

\* NavBar._render_buttons: the call-to-action, Button(**btn) for every
\* additional button, then the mobile-menu toggle
_render_buttons(nav) ==
    Node("div",
         << Node("button", <<Text(nav.cta_text)>>,
                 [type |-> <<"button">>,
                  cls  |-> <<"text-white bg-blue-700 hover:bg-blue-800 focus:ring-4 focus:outline-none focus:ring-blue-300 font-medium rounded-lg text-sm px-4 py-2 text-center dark:bg-blue-600 dark:hover:bg-blue-700 dark:focus:ring-blue-800">>]) >>
         \o [i \in 1..Len(nav.additional_buttons) |->
                Node("button", << >>, nav.additional_buttons[i])]
         \o << _render_mobile_menu_button >>,
         [cls |-> <<"flex md:order-2 space-x-3 md:space-x-0 rtl:space-x-reverse">>])

\* NavBar._render_brand
_render_brand(nav) ==
    Node("a",
         << Node("img", << >>,
                 [src |-> nav.logo_src,
                  cls |-> <<"h-8">>,
                  alt |-> nav.brand_name \o <<" ", "Logo">>]),
            Node("span", <<Text(nav.brand_name)>>,
                 [cls |-> <<"self-center text-2xl font-semibold whitespace-nowrap dark:text-white">>]) >>,
         [href |-> nav.brand_href,
          cls  |-> <<"flex items-center space-x-3 rtl:space-x-reverse">>])

\* NavBar._render_container
_render_container(nav) ==
    Node("div",
         << _render_brand(nav), _render_buttons(nav), _render_menu(nav) >>,
         [cls |-> <<"max-w-screen-xl flex flex-wrap items-center justify-between mx-auto p-4">>])

\* NavBar.__xt__, lines 97-98: the keyword arguments of Nav
nav_attrs(nav) == Update([cls |-> nav.cls], HxAttrs(nav.htmx))

\* NavBar.__xt__
NavBar_xt(nav) == Node("nav", << _render_container(nav) >>, nav_attrs(nav))

(***************************************************************************)
(* components/accordion.py                                                 *)
(***************************************************************************)
\* f"{self.id}-heading", f"{self.id}-body", f"#{self.id}-body"
HeadingId(id) == id \o <<"-heading">>

BodyId(id) == id \o <<"-body">>

\* the control-target naming the heading
BodyTarget_heading(id) == <<"#">> \o HeadingId(id)

BodyTarget(id) == <<"#">> \o BodyId(id)

\* AccordionItem.__xt__: the (H2, Div) pair
AccordionItem_xt(item) ==
    Node("#tuple",
         << Node("h2",
                 << Node("button",
                         << Node("span", <<Text(item.title)>>, EmptyDict),
                            Node("svg",
                                 << Node("path", << >>,
                                         [stroke          |-> <<"currentColor">>,
                                          stroke_linecap  |-> <<"round">>,
                                          stroke_linejoin |-> <<"round">>,
                                          stroke_width    |-> <<"2">>,
                                          d               |-> <<"M9 5 5 1 1 5">>]) >>,
                                 [data_accordion_icon |-> << >>,
                                  cls         |-> <<"w-3 h-3 rotate-180 shrink-0">>,
                                  aria_hidden |-> <<"true">>,
                                  xmlns       |-> <<"http://www.w3.org/2000/svg">>,
                                  fill        |-> <<"none">>,
                                  viewbox     |-> <<"0 0 10 6">>]) >>,
                         [type |-> <<"button">>,
                          cls  |-> <<"flex items-center justify-between w-full p-5 font-medium rtl:text-right text-gray-500 border border-b-0 border-gray-200 rounded-t-xl focus:ring-4 focus:ring-gray-200 dark:focus:ring-gray-800 dark:border-gray-700 dark:text-gray-400 hover:bg-gray-100 dark:hover:bg-gray-800 gap-3">>,
                          data_accordion_target |-> BodyTarget(item.id),
                          aria_expanded |-> <<"false">>,
                          aria_controls |-> BodyId(item.id)]) >>,
                 [id |-> HeadingId(item.id)]),
            Node("div",
                 << Node("div",
                         [i \in 1..Len(item.content) |->
                             Node("p", <<Text(item.content[i])>>,
                                  [cls |-> <<"mb-2 text-gray-500 dark:text-gray-400">>])],
                         [cls |-> <<"p-5 border border-b-0 border-gray-200 dark:border-gray-700 dark:bg-gray-900">>]) >>,
                 [id  |-> BodyId(item.id),
                  cls |-> <<"hidden">>,
                  aria_labelledby |-> HeadingId(item.id)]) >>,
         EmptyDict)

\* Accordion.__xt__
Accordion_xt(acc) ==
    Node("div",
         [i \in 1..Len(acc.items) |-> AccordionItem_xt(acc.items[i])],
         [id |-> <<"accordion-collapse">>, data_accordion |-> <<"collapse">>])

(***************************************************************************)
(* Bounds and the descriptors the callers construct                        *)
(***************************************************************************)
MaxFields == 3
MaxSections == 1
MaxMenu == 3
MaxItems == 2

FieldRefs == 1..MaxFields

\* all sequences over S of length lo..hi
SeqsOf(S, lo, hi) == UNION {[1..n -> S] : n \in lo..hi}

AttrOf(key, value) == [k \in {key} |-> value]

\* FormField.additional_attrs of the field objects, by reference: a class
\* and an ordinary attribute (example_validation.py, line 33); a padded
\* class, an attribute named as a rewritten behavioural key, and the base
\* keys type and id; none
FieldAttrs(ref) ==
    CASE ref % 3 = 1 -> [cls |-> <<"extra">>, autocomplete |-> <<"off">>]
      [] ref % 3 = 2 -> [cls |-> <<"wide", " ">>, hx_post |-> <<"/override">>,
                         type |-> <<"email">>, id |-> <<"custom-id">>]
      [] OTHER       -> EmptyDict

\* FormField.htmx of the field objects (example_validation.py, lines 27-32)
FieldHtmx(ref) ==
    CASE ref % 3 = 1 -> [post |-> <<"/check-username">>, trigger |-> <<"change">>]
      [] ref % 3 = 2 -> [post |-> <<"/check-password-match">>]
      [] OTHER       -> EmptyDict

FormField(ref, attrs, htmx) ==
    [name             |-> <<"field", ToString(ref)>>,
     label            |-> <<"Field", " ", ToString(ref)>>,
     type             |-> <<"text">>,
     pattern          |-> None,
     required         |-> TRUE,
     placeholder      |-> <<" ">>,
     additional_attrs |-> attrs,
     htmx             |-> htmx]

\* htmx and additional_attrs of the CustomButton a form is given as its
\* submit button: the one of example_validation.py, lines 127-131, one
\* with behavioural attributes of its own, and one whose additional_attrs
\* set a type other than "submit"
SubmitButtonChoices ==
    { [htmx  |-> EmptyDict,
       attrs |-> Update(AttrOf("type", <<"submit">>),
                        AttrOf("aria-label", <<"Register">>))],
      [htmx  |-> [post |-> <<"/own">>, get |-> <<"/load-more">>],
       attrs |-> EmptyDict],
      [htmx  |-> EmptyDict,
       attrs |-> AttrOf("type", <<"button">>)] }

CustomButton(label, style, type, size, pill, htmx, attrs) ==
    [kind  |-> "button",
     label |-> label,
     style |-> style,
     type  |-> type,
     size  |-> size,
     pill  |-> pill,
     htmx  |-> htmx,
     additional_attrs |-> attrs]

\* style and size keys: every key of the tables, and keys the tables lack
\* ("primary" is the style of the usage example in floating_form.py)
StyleInputs == (DOMAIN _style_classes) \cup {"primary", ""}

SizeInputs == (DOMAIN _size_classes) \cup {"huge"}

ButtonHtmxChoices ==
    { EmptyDict,
      [post |-> <<"/x">>],
      [get |-> <<"/load-more">>, target |-> <<"#content">>, swap |-> <<"beforeend">>] }

ButtonAttrChoices ==
    { EmptyDict,
      [cls |-> <<"extra">>],
      [hx_post |-> <<"/override">>, type |-> <<"reset">>],
      Update(AttrOf("data-custom", <<"value">>),
             AttrOf("aria-label", <<"Custom", " ", "Button">>)) }

ButtonDescs ==
    { CustomButton(<<"Default">>, st, <<"button">>, sz, FALSE, EmptyDict, EmptyDict) :
        st \in StyleInputs, sz \in SizeInputs }
    \cup
    { CustomButton(<<"Custom">>, d[1], d[2], "lg", d[3], d[4], d[5]) :
        d \in {"green", "primary"} \X {<<"button">>, <<"submit">>} \X BOOLEAN
              \X ButtonHtmxChoices \X ButtonAttrChoices }

FormSection(n, layout) == [fields |-> [i \in 1..n |-> i], layout |-> layout]

SectionChoices == {FormSection(n, l) : n \in 0..MaxFields, l \in {"single", "double"}}

\* the section lists of the forms: 1..MaxSections sections over the same
\* field objects
SectionLists == {[i \in 1..k |-> s] : k \in 1..MaxSections, s \in SectionChoices}

FormHtmxChoices ==
    { EmptyDict,
      [post |-> <<"/submit-form">>, target |-> <<"#form-response">>] }

FloatingLabelForm(sections, htmx, custom) ==
    [kind         |-> "form",
     sections     |-> sections,
     submit_label |-> <<"Submit">>,
     cls          |-> <<"max-w-md mx-auto">>,
     htmx         |-> htmx,
     custom_submit_button |-> custom]

FormDescs ==
    { FloatingLabelForm(d[1], d[2], d[3]) :
        d \in SectionLists \X FormHtmxChoices \X BOOLEAN }

NavMenuItem(i, active, cls) ==
    [text   |-> <<"Item", ToString(i)>>,
     href   |-> <<"/item", ToString(i)>>,
     active |-> active,
     cls    |-> cls]

NavBar(actives, itemCls, buttons, htmx) ==
    [kind       |-> "navbar",
     logo_src   |-> <<"/static/logo.svg">>,
     brand_name |-> <<"TechCorp">>,
     menu_items |-> [i \in 1..Len(actives) |-> NavMenuItem(i, actives[i], itemCls)],
     cta_text   |-> <<"Login">>,
     brand_href |-> <<"/">>,
     additional_buttons |-> buttons,
     cls        |-> <<"bg-white border-gray-200 dark:bg-gray-900">>,
     htmx       |-> htmx]

NavDescs ==
    { NavBar(d[1], d[2], d[3], d[4]) :
        d \in SeqsOf(BOOLEAN, 0, MaxMenu)
              \X {<< >>, <<"extra">>}
              \X {<< >>, <<[text |-> <<"Log", " ", "In">>,
                            cls  |-> <<"text-gray-800 hover:bg-gray-50">>]>>}
              \X {EmptyDict, [boost |-> <<"true">>]} }

\* identifiers the caller passes
IdChoices == {<<"faq-a">>, <<"faq-b">>}

\* AccordionItem.id, line 10: outcomes of uuid.uuid4().hex[:8]; the calls
\* for two items are independent, so they may yield the same outcome
HexChoices == {"1a2b3c4d", "9f8e7d6c"}

\* AccordionItem.id, line 10: f"accordion-{uuid.uuid4().hex[:8]}"
AutoId(hex) == <<"accordion-", hex>>

\* the identifiers of items constructed without one
AutoIds == {AutoId(h) : h \in HexChoices}

AccordionItem(i, id) ==
    [title   |-> <<"Question", " ", ToString(i)>>,
     content |-> [j \in 1..i |-> <<"Answer", " ", ToString(j)>>],
     id      |-> id]

Accordion(ids) ==
    [kind  |-> "accordion",
     items |-> [i \in 1..Len(ids) |-> AccordionItem(i, ids[i])]]

AccordionDescs ==
    {Accordion(ids) : ids \in SeqsOf(IdChoices \cup AutoIds, 0, MaxItems)}

(***************************************************************************)
(* State                                                                   *)
(***************************************************************************)
VARIABLES
    fields,     \* heap: field reference -> FormField
    button,     \* heap: the CustomButton used as custom_submit_button
    initial,    \* the heap as constructed
    desc,       \* the descriptor of the latest first render
    out,        \* what that render returned
    again,      \* what the latest repeated render of desc returned
    proc        \* the concurrent form renders in progress

vars == <<fields, button, initial, desc, out, again, proc>>

Procs == {1, 2}

NoDesc == [kind |-> "none"]

NotRendered == Node("!none", << >>, EmptyDict)

Idle == [pc |-> "idle", form |-> NoDesc, i |-> 0, trees |-> << >>, ret |-> NotRendered]

Init ==
    /\ fields = [r \in FieldRefs |-> FormField(r, FieldAttrs(r), FieldHtmx(r))]
    /\ \E c \in SubmitButtonChoices :
          button = CustomButton(<<"Register">>, "default", <<"button">>, "base",
                                FALSE, c.htmx, c.attrs)
    /\ initial = [fields |-> fields, button |-> button]
    /\ desc \in ButtonDescs \cup NavDescs \cup AccordionDescs \cup {NoDesc}
    /\ out = NotRendered
    /\ again = NotRendered
    /\ proc = [p \in Procs |-> Idle]

\* the render of descriptor d on the heap (fs, btn): the result and the heap
\* it leaves behind
Render(d, fs, btn) ==
    CASE d.kind = "button"    -> [tree |-> CustomButton_call(d), fields |-> fs, button |-> btn]
      [] d.kind = "navbar"    -> [tree |-> NavBar_xt(d), fields |-> fs, button |-> btn]
      [] d.kind = "accordion" -> [tree |-> Accordion_xt(d), fields |-> fs, button |-> btn]
      [] d.kind = "form"      -> FloatingLabelForm_xt(d, fs, btn)

\* a first render of d returned r
Returned(d, r) ==
    /\ desc' = d
    /\ out' = r.tree
    /\ again' = NotRendered
    /\ fields' = r.fields
    /\ button' = r.button
    /\ UNCHANGED <<initial, proc>>

\* a repeated render of desc returned r
ReturnedAgain(r) ==
    /\ again' = r.tree
    /\ fields' = r.fields
    /\ button' = r.button
    /\ UNCHANGED <<initial, desc, out, proc>>

FirstRender(d) == Returned(d, Render(d, fields, button))

\* A run either renders the Button, NavBar or Accordion the caller has
\* constructed (desc of the initial state), or it renders forms, in any
\* number and order, over the same fields and button.
RenderButton == desc.kind = "button" /\ out = NotRendered /\ FirstRender(desc)

RenderNavBar == desc.kind = "navbar" /\ out = NotRendered /\ FirstRender(desc)

RenderAccordion == desc.kind = "accordion" /\ out = NotRendered /\ FirstRender(desc)

RenderForm == desc.kind \in {"none", "form"} /\ \E f \in FormDescs : FirstRender(f)

\* the caller renders the same descriptor once more
RenderAgain ==
    /\ out # NotRendered
    /\ ReturnedAgain(Render(desc, fields, button))

Next ==
    \/ RenderButton
    \/ RenderForm
    \/ RenderNavBar
    \/ RenderAccordion
    \/ RenderAgain

Spec == Init /\ [][Next]_vars

(***************************************************************************)
(* Concurrent form renders.  Each process renders one form; a step is one  *)
(* render_section call of the comprehension in __xt__ or one statement of  *)
(* render_submit_button, and the steps of the processes interleave.        *)
(***************************************************************************)
\* __xt__ is entered: form_attrs is built and the comprehension starts
CStart(p) ==
    /\ proc[p].pc = "idle"
    /\ \E f \in FormDescs :
          proc' = [proc EXCEPT ![p] =
                      [pc |-> "sections", form |-> f, i |-> 1,
                       trees |-> << >>, ret |-> NotRendered]]
    /\ UNCHANGED <<fields, button, initial, desc, out, again>>

\* process p, in state me, got r from its render_section call
SectionReturned(p, me, r) ==
    /\ fields' = r.fields
    /\ proc' = [proc EXCEPT ![p] =
          IF ~IsTree(r.tree)
          THEN [me EXCEPT !.pc = "done", !.ret = r.tree]
          ELSE [me EXCEPT !.trees = Append(me.trees, r.tree),
                          !.i = me.i + 1,
                          !.pc = IF me.i = Len(me.form.sections)
                                 THEN "submit" ELSE "sections"]]
    /\ UNCHANGED <<button, initial, desc, out, again>>

\* the next render_section call; an IndexError ends the render
CSection(p) ==
    /\ proc[p].pc = "sections"
    /\ SectionReturned(p, proc[p],
                       render_section(proc[p].form.sections[proc[p].i], fields))

\* render_submit_button without a custom button, and the return of __xt__
CSubmitDefault(p) ==
    /\ proc[p].pc = "submit"
    /\ ~proc[p].form.custom_submit_button
    /\ proc' = [proc EXCEPT ![p].pc = "done",
                            ![p].ret = Node("form",
                                            Append(proc[p].trees,
                                                   DefaultSubmit(proc[p].form)),
                                            form_attrs(proc[p].form))]
    /\ UNCHANGED <<fields, button, initial, desc, out, again>>

\* render_submit_button, line 211
CSubmitType(p) ==
    /\ proc[p].pc = "submit"
    /\ proc[p].form.custom_submit_button
    /\ button' = SubmitSetType(button)
    /\ proc' = [proc EXCEPT ![p].pc = "update"]
    /\ UNCHANGED <<fields, initial, desc, out, again>>

\* render_submit_button, line 212
CSubmitUpdate(p) ==
    /\ proc[p].pc = "update"
    /\ button' = SubmitUpdateHtmx(button, proc[p].form)
    /\ proc' = [proc EXCEPT ![p].pc = "call"]
    /\ UNCHANGED <<fields, initial, desc, out, again>>

\* render_submit_button, line 213, and the return of __xt__
CSubmitCall(p) ==
    /\ proc[p].pc = "call"
    /\ proc' = [proc EXCEPT ![p].pc = "done",
                            ![p].ret = Node("form",
                                            Append(proc[p].trees,
                                                   CustomButton_call(button)),
                                            form_attrs(proc[p].form))]
    /\ UNCHANGED <<fields, button, initial, desc, out, again>>

NextC ==
    \E p \in Procs :
        \/ CStart(p)
        \/ CSection(p)
        \/ CSubmitDefault(p)
        \/ CSubmitType(p)
        \/ CSubmitUpdate(p)
        \/ CSubmitCall(p)

\* the concurrent renders are form renders: no other descriptor is constructed
InitC == Init /\ desc = NoDesc

SpecC == InitC /\ [][NextC]_vars

(***************************************************************************)
(* Properties                                                              *)
(***************************************************************************)
\* the tree the latest render returned
Latest == IF again = NotRendered THEN out ELSE again

\* the rendered submit control of a form tree
SubmitControl(tree) == tree.children[Len(tree.children)]

\* the input node of field j of section i of a form tree
InputNode(tree, i, j) == tree.children[i].children[j].children[1]

\* the number of fields a section renders
Rendered(section) == IF section.layout = "double" THEN 2 ELSE Len(section.fields)

Prefixed(htmx) == {"hx_" \o v : v \in DOMAIN htmx}

\* C1: the style and size lookups of a Button render are total: every style
\* key and every size key, in the tables or not, yields a non-empty class
\* string; a key of the table yields its entry, an unknown style key the
\* entry of "default" and an unknown size key the entry of "base"; the
\* render returns a tree.
C1_LookupTotal ==
    (/\ desc.kind = "button"
     /\ out # NotRendered
     /\ "cls" \notin DOMAIN desc.additional_attrs) =>
        /\ IsTree(out)
        /\ Len(out.attrs.cls) >= 3
        /\ out.attrs.cls[1] # ""
        /\ out.attrs.cls[3] # ""
        /\ LET style == <<out.attrs.cls[1]>>
               size  == <<out.attrs.cls[3]>>
           IN  /\ style = IF desc.style \in DOMAIN _style_classes
                          THEN _style_classes[desc.style]
                          ELSE _style_classes["default"]
               /\ size = IF desc.size \in DOMAIN _size_classes
                         THEN _size_classes[desc.size]
                         ELSE _size_classes["base"]

C1_Witness ==
    /\ desc.kind = "button"
    /\ out # NotRendered
    /\ desc.style = "primary"
    /\ desc.size = "huge"
    /\ IsTree(out)
    /\ "cls" \in DOMAIN out.attrs

\* C2: a Button whose additional_attrs carry cls is rendered with the
\* generated class followed by one space and the override class.
C2_OverrideClassExtends ==
    (/\ desc.kind = "button"
     /\ out # NotRendered
     /\ "cls" \in DOMAIN desc.additional_attrs) =>
        out.attrs.cls = Join(classes(desc)) \o <<" ">> \o desc.additional_attrs.cls

\* C3: in a Button render additional_attrs are applied last: every key of
\* additional_attrs carries the value additional_attrs gives it, also a key
\* that equals a rewritten htmx key or a base key.
C3_OverridesAppliedLast ==
    (desc.kind = "button" /\ out # NotRendered) =>
        \A k \in DOMAIN desc.additional_attrs :
            out.attrs[k] = desc.additional_attrs[k]

\* C4: in Button, form element, form field, custom submit control and NavBar
\* the rendered attribute names are exactly the base names, "hx_" + k for
\* every behavioural key k, and the override names unchanged; distinct
\* behavioural keys give distinct names.
C4_PrefixOncePerBehaviouralKey ==
    /\ (desc.kind = "button" /\ out # NotRendered) =>
          /\ DOMAIN out.attrs =
                {"type", "cls"} \cup Prefixed(desc.htmx) \cup DOMAIN desc.additional_attrs
          /\ Cardinality(Prefixed(desc.htmx)) = Cardinality(DOMAIN desc.htmx)
    /\ (desc.kind = "navbar" /\ out # NotRendered) =>
          DOMAIN out.attrs = {"cls"} \cup Prefixed(desc.htmx)
    /\ (desc.kind = "form" /\ IsTree(Latest)) =>
          /\ DOMAIN Latest.attrs = {"cls"} \cup Prefixed(desc.htmx)
          /\ \A i \in 1..Len(desc.sections) :
                \A j \in 1..Rendered(desc.sections[i]) :
                    LET field == fields[desc.sections[i].fields[j]]
                    IN  DOMAIN InputNode(Latest, i, j).attrs =
                            {"type", "name", "id", "placeholder", "required",
                             "pattern", "cls"}
                            \cup Prefixed(field.htmx)
                            \cup DOMAIN field.additional_attrs
          /\ desc.custom_submit_button =>
                DOMAIN SubmitControl(Latest).attrs =
                    {"type", "cls"} \cup Prefixed(button.htmx)
                    \cup DOMAIN button.additional_attrs

C4_Witness ==
    /\ desc.kind = "form"
    /\ IsTree(out)
    /\ desc.custom_submit_button
    /\ desc.htmx # EmptyDict
    /\ desc.sections[1].layout = "double"
    /\ "hx_post" \in DOMAIN fields[2].additional_attrs
    /\ "hx_trigger" \in DOMAIN InputNode(out, 1, 1).attrs
    /\ "hx_post" \in DOMAIN InputNode(out, 1, 2).attrs
    /\ "hx_target" \in DOMAIN SubmitControl(out).attrs

\* C5: a form with a "double" section whose number of fields is not two is
\* rejected: its render returns no tree.  (A form descriptor in desc has
\* been rendered.)
C5_DoubleNeedsTwoFields ==
    (/\ desc.kind = "form"
     /\ \E i \in 1..Len(desc.sections) :
           /\ desc.sections[i].layout = "double"
           /\ Len(desc.sections[i].fields) # 2)
    => ~IsTree(out)

\* C6: an Accordion with two items of the same identifier is rejected: its
\* render returns no tree.
C6_DuplicateIdRejected ==
    (/\ desc.kind = "accordion"
     /\ out # NotRendered
     /\ \E i, j \in 1..Len(desc.items) :
           i # j /\ desc.items[i].id = desc.items[j].id)
    => ~IsTree(out)

\* C7: a repeated render of a descriptor returns the tree its first render
\* returned.
C7_RepeatedRenderSameTree ==
    again # NotRendered => again = out

\* C8: a render changes no field of any descriptor: the FormFields and the
\* custom submit button stay as constructed.
C8_RenderLeavesDescriptors ==
    /\ fields = initial.fields
    /\ button = initial.button

\* C9: under every interleaving of concurrent form renders, a finished
\* render has returned what it returns when run alone on the descriptors as
\* constructed.
C9_ConcurrentRenderAsAlone ==
    \A p \in Procs :
        proc[p].pc = "done" =>
            proc[p].ret =
                FloatingLabelForm_xt(proc[p].form, initial.fields, initial.button).tree

\* C10: a form render with a custom submit button renders that control with
\* hx_<verb> for every verb of the button's htmx (as it is when the render
\* starts) and of the form's htmx, with the form's value for a verb of both.
C10_SubmitGetsFormHtmx ==
    [][ (/\ desc'.kind = "form"
         /\ desc'.custom_submit_button
         /\ IsTree(Latest'))
        => LET control == SubmitControl(Latest')
               own     == button.htmx
               form    == desc'.htmx
           IN  \A v \in (DOMAIN own) \cup (DOMAIN form) :
                  /\ ("hx_" \o v) \in DOMAIN control.attrs
                  /\ control.attrs["hx_" \o v] =
                        IF v \in DOMAIN form THEN form[v] ELSE own[v] ]_vars

C10_Witness ==
    /\ desc.kind = "form"
    /\ desc.custom_submit_button
    /\ IsTree(out)
    /\ "post" \in DOMAIN initial.button.htmx
    /\ "post" \in DOMAIN desc.htmx
    /\ SubmitControl(out).attrs.hx_post = <<"/submit-form">>
    /\ SubmitControl(out).attrs.hx_get = <<"/load-more">>
    /\ SubmitControl(out).attrs.hx_target = <<"#form-response">>

\* C11: a Button is rendered with the type its additional_attrs give, whatever
\* its role (the field type), and with its role when additional_attrs give
\* none; the custom submit control of a form is rendered with the type its
\* additional_attrs give, and with "submit", the role the form forces, when
\* they give none.
C11_TypeOverridePrecedence ==
    /\ (desc.kind = "button" /\ out # NotRendered) =>
          out.attrs.type = IF "type" \in DOMAIN desc.additional_attrs
                           THEN desc.additional_attrs.type
                           ELSE desc.type
    /\ (desc.kind = "form" /\ desc.custom_submit_button /\ IsTree(Latest)) =>
          /\ button.type = <<"submit">>
          /\ SubmitControl(Latest).attrs.type =
                IF "type" \in DOMAIN button.additional_attrs
                THEN button.additional_attrs.type
                ELSE <<"submit">>

C11_Witness ==
    /\ desc.kind = "form"
    /\ desc.custom_submit_button
    /\ IsTree(out)
    /\ initial.button.type = <<"button">>
    /\ button.type = <<"submit">>
    /\ button.additional_attrs.type = <<"button">>
    /\ SubmitControl(out).attrs.type = <<"button">>

\* the rendered link of menu entry i of a NavBar tree
MenuEntry(tree, i) == tree.children[1].children[3].children[1].children[i].children[1]

\* the menu entries of a NavBar tree that carry aria_current = "page"
CurrentEntries(tree, n) ==
    {i \in 1..n : MenuEntry(tree, i).attrs.aria_current = <<"page">>}

\* C12: every menu entry of a rendered NavBar has the class: base class, one
\* blank, the active class if the entry is active and the inactive class if
\* not, and, if the entry has an extra class, one blank and the extra class;
\* aria_current is "page" if the entry is active and None (the value for
\* which the tag function emits no attribute; not "") if not; as many
\* entries carry aria_current as are active.
C12_MenuEntryClassAndCurrent ==
    (desc.kind = "navbar" /\ out # NotRendered) =>
        /\ \A i \in 1..Len(desc.menu_items) :
              LET item == desc.menu_items[i]
                  link == MenuEntry(out, i)
              IN  /\ link.attrs.cls =
                        base_cls \o <<" ">>
                        \o (IF item.active THEN active_cls ELSE inactive_cls)
                        \o (IF item.cls = << >> THEN << >> ELSE <<" ">> \o item.cls)
                  /\ item.active => link.attrs.aria_current = <<"page">>
                  /\ ~item.active => /\ link.attrs.aria_current = None
                                     /\ link.attrs.aria_current # << >>
        /\ Cardinality(CurrentEntries(out, Len(desc.menu_items))) =
              Cardinality({i \in 1..Len(desc.menu_items) : desc.menu_items[i].active})

C12_Witness ==
    /\ desc.kind = "navbar"
    /\ out # NotRendered
    /\ Len(desc.menu_items) = 3
    /\ ~desc.menu_items[1].active
    /\ desc.menu_items[2].active
    /\ ~desc.menu_items[3].active
    /\ desc.menu_items[2].cls = <<"extra">>
    /\ CurrentEntries(out, 3) = {2}
    /\ MenuEntry(out, 1).attrs.aria_current = None
    /\ MenuEntry(out, 2).attrs.cls[3] = active_cls[1]

\* the header, the toggle control and the body of item i of an Accordion tree
ItemHeader(tree, i) == tree.children[i].children[1]

ItemToggle(tree, i) == ItemHeader(tree, i).children[1]

ItemBody(tree, i) == tree.children[i].children[2]

C14_AutoIdsDistinct ==
    (/\ desc.kind = "accordion"
     /\ out # NotRendered
     /\ \A i \in 1..Len(desc.items) : desc.items[i].id \in AutoIds) =>
        /\ \A i \in 1..Len(desc.items) :
              /\ desc.items[i].id # << >>
              /\ ItemToggle(out, i).attrs.data_accordion_target =
                    <<"#">> \o ItemBody(out, i).attrs.id
        /\ \A i, j \in 1..Len(desc.items) :
              i # j => /\ desc.items[i].id # desc.items[j].id
                       /\ ItemBody(out, i).attrs.id # ItemBody(out, j).attrs.id

\* the Div of field j of section i of a form tree, and its label
FieldNode(tree, i, j) == tree.children[i].children[j]

LabelNode(tree, i, j) == FieldNode(tree, i, j).children[2]

\* the heap on which section i of a form render starts, the render having
\* started on the heap fs
FieldsBefore(form, fs, i) ==
    SectionList(SubSeq(form.sections, 1, i - 1), fs, << >>).fields

\* C15: in every form render, the input of every rendered field has the
\* class: the floating-label base class, and, if the field has an override
\* class when it is rendered, one blank and the override class without
\* trailing whitespace; the base class is always there.
C15_FieldClassConcatenated ==
    [][ (desc'.kind = "form" /\ IsTree(Latest')) =>
          \A i \in 1..Len(desc'.sections) :
              \A j \in 1..Rendered(desc'.sections[i]) :
                  LET field == FieldsBefore(desc', fields, i)[desc'.sections[i].fields[j]]
                      given == Get(field.additional_attrs, "cls", << >>)
                  IN  InputNode(Latest', i, j).attrs.cls =
                          IF given = << >>
                          THEN default_cls
                          ELSE default_cls \o <<" ">> \o RStrip(given) ]_vars

C15_Witness ==
    /\ desc.kind = "form"
    /\ IsTree(out)
    /\ desc.sections[1].layout = "single"
    /\ Len(desc.sections[1].fields) = 3
    /\ initial.fields[1].additional_attrs.cls = <<"extra">>
    /\ "cls" \notin DOMAIN initial.fields[3].additional_attrs
    /\ InputNode(out, 1, 1).attrs.cls = default_cls \o <<" ", "extra">>
    /\ InputNode(out, 1, 2).attrs.cls = default_cls \o <<" ", "wide">>
    /\ InputNode(out, 1, 3).attrs.cls = default_cls

\* C16: in a rendered form the input of every rendered field has the id
\* floating_<name>, and its label's for reference (fr) equals the input's id.
C16_LabelPointsAtInput ==
    (desc.kind = "form" /\ IsTree(Latest)) =>
        \A i \in 1..Len(desc.sections) :
            \A j \in 1..Rendered(desc.sections[i]) :
                LET field == fields[desc.sections[i].fields[j]]
                IN  /\ InputNode(Latest, i, j).attrs.id = <<"floating_">> \o field.name
                    /\ LabelNode(Latest, i, j).attrs.fr = InputNode(Latest, i, j).attrs.id

\* C17: in a rendered form every section has one Div per rendered field,
\* and every such Div has exactly three children: the input, the label, and
\* a div without children whose only attribute is the class
\* "validation-message".
C17_OneValidationContainer ==
    (desc.kind = "form" /\ IsTree(Latest)) =>
        /\ Len(Latest.children) = Len(desc.sections) + 1
        /\ \A i \in 1..Len(desc.sections) :
              /\ Len(Latest.children[i].children) = Rendered(desc.sections[i])
              /\ \A j \in 1..Rendered(desc.sections[i]) :
                    /\ Len(FieldNode(Latest, i, j).children) = 3
                    /\ FieldNode(Latest, i, j).children[1].tag = "input"
                    /\ FieldNode(Latest, i, j).children[2].tag = "label"
                    /\ FieldNode(Latest, i, j).children[3] =
                          [tag      |-> "div",
                           attrs    |-> [cls |-> <<"validation-message">>],
                           children |-> << >>]

C17_Witness ==
    /\ desc.kind = "form"
    /\ IsTree(out)
    /\ desc.sections[1].layout = "double"
    /\ Len(desc.sections[1].fields) = 2
    /\ Len(out.children[1].children) = 2
    /\ FieldNode(out, 1, 2).children[1].attrs.hx_post = <<"/override">>
    /\ FieldNode(out, 1, 2).children[3].attrs.cls = <<"validation-message">>

\* C18: no step removes a key of the custom submit button's htmx; a form
\* render with the custom submit button leaves every verb of the form's
\* htmx with the form's value, and every verb the button had before and the
\* form does not set with its value, rendered as hx_<verb> on the control.
C18_ButtonHtmxOnlyGrows ==
    [][ /\ (DOMAIN button.htmx) \subseteq (DOMAIN button'.htmx)
        /\ (desc'.kind = "form" /\ desc'.custom_submit_button /\ IsTree(Latest')) =>
              /\ \A v \in DOMAIN desc'.htmx : button'.htmx[v] = desc'.htmx[v]
              /\ \A v \in (DOMAIN button.htmx) \ (DOMAIN desc'.htmx) :
                    /\ button'.htmx[v] = button.htmx[v]
                    /\ ("hx_" \o v) \in DOMAIN SubmitControl(Latest').attrs
                    /\ SubmitControl(Latest').attrs["hx_" \o v] = button.htmx[v] ]_vars

C18_Witness ==
    /\ desc.kind = "form"
    /\ desc.custom_submit_button
    /\ desc.htmx = EmptyDict
    /\ IsTree(out)
    /\ initial.button.htmx = EmptyDict
    /\ button.htmx = [post |-> <<"/submit-form">>, target |-> <<"#form-response">>]
    /\ SubmitControl(out).attrs.hx_post = <<"/submit-form">>
    /\ SubmitControl(out).attrs.hx_target = <<"#form-response">>

====
